---- MODULE Spec2Model ----
(***************************************************************************)
(* RLP encoding and decoding of Block<T> and BlockBody<T>                  *)
(* (crates/consensus/src/block.rs).  Bytes are naturals in 0..255, byte    *)
(* buffers are sequences of bytes.  BlockBody derives RlpEncodable and     *)
(* RlpDecodable with #[rlp(trailing)]; Block goes through the flattening   *)
(* views block_rlp::HelperRef (encode) and block_rlp::Helper (decode),     *)
(* which derive the same traits.  The derived code is modelled field by    *)
(* field, on raw bytes, as alloy_rlp generates it.                         *)
(***************************************************************************)
EXTENDS Integers, Sequences, FiniteSets, TLC

\* ------------------------------------------------------------------------
\* Bounds of the model
\* ------------------------------------------------------------------------
MaxTxs == 1
MaxOmmers == 1
MaxWithdrawals == 1
MaxRequests == 1
MaxTail == 3
HeaderPad == 56

\* ------------------------------------------------------------------------
\* alloy_rlp primitives
\* ------------------------------------------------------------------------
EMPTY_STRING_CODE == 128
EMPTY_LIST_CODE == 192

\* Option<V>: None is the empty sequence, Some(v) the one-element sequence.
None == <<>>
Some(v) == <<v>>
IsSome(o) == Len(o) > 0
Unwrap(o) == o[1]

\* alloy_rlp::Result of a decoder: the value and the advanced cursor, or an error.
Ok(v, rest) == [ok |-> TRUE, val |-> v, rest |-> rest, err |-> "none"]
Err(e) == [ok |-> FALSE, val |-> <<>>, rest |-> <<>>, err |-> e]

\* With({e : x \in {v}}) is e with x bound to the value of v
With(S) == CHOOSE x \in S : TRUE

Drop(buf, n) == SubSeq(buf, n + 1, Len(buf))
Take(buf, n) == SubSeq(buf, 1, n)

RECURSIVE ToBe(_)
\* big-endian bytes of n without leading zeros
ToBe(n) == IF n = 0 THEN <<>> ELSE ToBe(n \div 256) \o <<n % 256>>

RECURSIVE FromBe(_)
FromBe(bs) == IF Len(bs) = 0 THEN 0 ELSE FromBe(Take(bs, Len(bs) - 1)) * 256 + bs[Len(bs)]

\* alloy_rlp::length_of_length
length_of_length(payload_length) ==
    IF payload_length < 56 THEN 1 ELSE 1 + Len(ToBe(payload_length))

\* alloy_rlp::Header::encode
Header_encode(list, payload_length) ==
    LET code == IF list THEN EMPTY_LIST_CODE ELSE EMPTY_STRING_CODE
    IN  IF payload_length < 56
        THEN <<code + payload_length>>
        ELSE LET be == ToBe(payload_length) IN <<code + 55 + Len(be)>> \o be

HOk(list, payload_length, rest) ==
    [ok |-> TRUE, list |-> list, payload_length |-> payload_length, rest |-> rest, err |-> "none"]
HErr(e) == [ok |-> FALSE, list |-> FALSE, payload_length |-> 0, rest |-> <<>>, err |-> e]

\* the final bounds check of Header::decode
HeaderFits(list, payload_length, rest) ==
    IF Len(rest) < payload_length THEN HErr("InputTooShort")
    ELSE HOk(list, payload_length, rest)

\* alloy_rlp::Header::decode
Header_decode(buf) ==
    IF Len(buf) = 0 THEN HErr("InputTooShort")
    ELSE LET b == buf[1]
             rest == Drop(buf, 1)
         IN  IF b < EMPTY_STRING_CODE THEN HeaderFits(FALSE, 1, buf)
             ELSE IF b <= 183 THEN
                 LET payload_length == b - EMPTY_STRING_CODE
                 IN  IF payload_length = 1 /\ Len(rest) = 0 THEN HErr("InputTooShort")
                     ELSE IF payload_length = 1 /\ rest[1] < EMPTY_STRING_CODE
                          THEN HErr("NonCanonicalSingleByte")
                     ELSE HeaderFits(FALSE, payload_length, rest)
             ELSE IF b <= 191 \/ b >= 248 THEN
                 LET list == b >= 248
                     len_of_len == IF list THEN b - 247 ELSE b - 183
                 IN  IF Len(rest) < len_of_len THEN HErr("InputTooShort")
                     ELSE LET len == Take(rest, len_of_len)
                              payload_length == FromBe(len)
                          IN  IF len[1] = 0 THEN HErr("LeadingZero")
                              ELSE IF payload_length < 56 THEN HErr("NonCanonicalSize")
                              ELSE HeaderFits(list, payload_length, Drop(rest, len_of_len))
             ELSE HeaderFits(TRUE, b - EMPTY_LIST_CODE, rest)

\* alloy_rlp::Header::decode_bytes: the payload of the next item, which must be
\* a list iff is_list
decode_bytes(buf, is_list) ==
    With({ IF ~h.ok THEN Err(h.err)
           ELSE IF h.list # is_list
                THEN Err(IF is_list THEN "UnexpectedString" ELSE "UnexpectedList")
           ELSE Ok(Take(h.rest, h.payload_length), Drop(h.rest, h.payload_length))
         : h \in {Header_decode(buf)} })

\* impl Encodable for u8 (the transaction type T of the model is u8)
u8_encode(x) ==
    IF x = 0 THEN <<EMPTY_STRING_CODE>>
    ELSE IF x < EMPTY_STRING_CODE THEN <<x>>
    ELSE <<EMPTY_STRING_CODE + 1, x>>

u8_length(x) == IF x < EMPTY_STRING_CODE THEN 1 ELSE 2

\* impl Decodable for u8
u8_decode(buf) ==
    With({ IF ~r.ok THEN r
           ELSE IF Len(r.val) > 1 THEN Err("Overflow")
           ELSE IF Len(r.val) = 0 THEN Ok(0, r.rest)
           ELSE IF r.val[1] = 0 THEN Err("LeadingZero")
           ELSE Ok(r.val[1], r.rest)
         : r \in {decode_bytes(buf, FALSE)} })

\* impl Encodable for [u8] / Bytes
bytes_encode(bs) ==
    IF Len(bs) = 1 /\ bs[1] < EMPTY_STRING_CODE THEN bs
    ELSE Header_encode(FALSE, Len(bs)) \o bs

bytes_length(bs) ==
    IF Len(bs) = 1 /\ bs[1] < EMPTY_STRING_CODE THEN 1
    ELSE length_of_length(Len(bs)) + Len(bs)

\* impl Decodable for Bytes
bytes_decode(buf) == decode_bytes(buf, FALSE)

\* variant: the consumed length is not compared with the declared one
Finish_unchecked(this, consumed, payload_length, rest) == Ok(this, rest)

\* the end of a derived decode: the fields must have consumed the payload exactly
Finish(this, consumed, payload_length, rest) ==
    IF consumed # payload_length THEN Err("ListLengthMismatch") ELSE Ok(this, rest)

\* ------------------------------------------------------------------------
\* The item types the block codec consumes as units: the consensus Header,
\* Withdrawal and Requests (a list of opaque typed request payloads), and the
\* transaction type T, instantiated as u8.
\* ------------------------------------------------------------------------
ConsensusHeader_payload_length(h) == u8_length(h.number) + bytes_length(h.extra_data)

ConsensusHeader_length(h) ==
    LET pl == ConsensusHeader_payload_length(h) IN pl + length_of_length(pl)

ConsensusHeader_encode(h) ==
    Header_encode(TRUE, ConsensusHeader_payload_length(h))
        \o u8_encode(h.number) \o bytes_encode(h.extra_data)

ConsensusHeader_decode(buf) ==
    With({ IF ~hd.ok THEN Err(hd.err)
           ELSE IF ~hd.list THEN Err("UnexpectedString")
           ELSE With({ IF ~n.ok THEN n
                       ELSE With({ IF ~e.ok THEN e
                                   ELSE Finish([number |-> n.val, extra_data |-> e.val],
                                               Len(hd.rest) - Len(e.rest),
                                               hd.payload_length, e.rest)
                                 : e \in {bytes_decode(n.rest)} })
                     : n \in {u8_decode(hd.rest)} })
         : hd \in {Header_decode(buf)} })

Withdrawal_payload_length(w) == u8_length(w.index) + u8_length(w.amount)

Withdrawal_length(w) ==
    LET pl == Withdrawal_payload_length(w) IN pl + length_of_length(pl)

Withdrawal_encode(w) ==
    Header_encode(TRUE, Withdrawal_payload_length(w))
        \o u8_encode(w.index) \o u8_encode(w.amount)

Withdrawal_decode(buf) ==
    With({ IF ~hd.ok THEN Err(hd.err)
           ELSE IF ~hd.list THEN Err("UnexpectedString")
           ELSE With({ IF ~i.ok THEN i
                       ELSE With({ IF ~a.ok THEN a
                                   ELSE Finish([index |-> i.val, amount |-> a.val],
                                               Len(hd.rest) - Len(a.rest),
                                               hd.payload_length, a.rest)
                                 : a \in {u8_decode(i.rest)} })
                     : i \in {u8_decode(hd.rest)} })
         : hd \in {Header_decode(buf)} })

\* dispatch on the element type of a Vec
Elem_encode(ty, v) ==
    CASE ty = "T" -> u8_encode(v)
      [] ty = "Header" -> ConsensusHeader_encode(v)
      [] ty = "Withdrawal" -> Withdrawal_encode(v)
      [] ty = "Request" -> bytes_encode(v)

Elem_length(ty, v) ==
    CASE ty = "T" -> u8_length(v)
      [] ty = "Header" -> ConsensusHeader_length(v)
      [] ty = "Withdrawal" -> Withdrawal_length(v)
      [] ty = "Request" -> bytes_length(v)

Elem_decode(ty, buf) ==
    CASE ty = "T" -> u8_decode(buf)
      [] ty = "Header" -> ConsensusHeader_decode(buf)
      [] ty = "Withdrawal" -> Withdrawal_decode(buf)
      [] ty = "Request" -> bytes_decode(buf)

RECURSIVE rlp_list_payload_length(_, _)
\* sum of the encoded lengths of the elements
rlp_list_payload_length(ty, v) ==
    IF Len(v) = 0 THEN 0
    ELSE Elem_length(ty, Head(v)) + rlp_list_payload_length(ty, Tail(v))

RECURSIVE EncodeElems(_, _)
EncodeElems(ty, v) ==
    IF Len(v) = 0 THEN <<>> ELSE Elem_encode(ty, Head(v)) \o EncodeElems(ty, Tail(v))

\* alloy_rlp::list_length
Vec_length(ty, v) ==
    LET pl == rlp_list_payload_length(ty, v) IN pl + length_of_length(pl)

\* alloy_rlp::encode_list (impl Encodable for Vec<E>)
Vec_encode(ty, v) ==
    Header_encode(TRUE, rlp_list_payload_length(ty, v)) \o EncodeElems(ty, v)

RECURSIVE DecodeElems(_, _, _)
\* the loop of Vec::decode over the payload view
DecodeElems(ty, payload_view, vec) ==
    IF Len(payload_view) = 0 THEN Ok(vec, <<>>)
    ELSE With({ IF ~e.ok THEN e ELSE DecodeElems(ty, e.rest, Append(vec, e.val))
              : e \in {Elem_decode(ty, payload_view)} })

\* impl Decodable for Vec<E>
Vec_decode(ty, buf) ==
    With({ IF ~bytes.ok THEN bytes
           ELSE With({ IF ~r.ok THEN r ELSE Ok(r.val, bytes.rest)
                     : r \in {DecodeElems(ty, bytes.val, <<>>)} })
         : bytes \in {decode_bytes(buf, TRUE)} })

\* ------------------------------------------------------------------------
\* Code derived with #[rlp(trailing)]: an Option field is written when it is
\* Some; when it is None and a later Option field is Some, one
\* EMPTY_STRING_CODE byte is written in its place; otherwise nothing.
\* ------------------------------------------------------------------------
\* variant: a None field never counts
Opt_length_no_marker(ty, field, later_is_some) ==
    IF IsSome(field) THEN Vec_length(ty, Unwrap(field)) ELSE 0

Opt_length(ty, field, later_is_some) ==
    IF IsSome(field) THEN Vec_length(ty, Unwrap(field))
    ELSE IF later_is_some THEN 1 ELSE 0

\* variant: a None field always writes the empty-string byte
Opt_encode_marker(ty, field, later_is_some) ==
    IF IsSome(field) THEN Vec_encode(ty, Unwrap(field)) ELSE <<EMPTY_STRING_CODE>>

\* variant: a None field never writes anything
Opt_encode_no_marker(ty, field, later_is_some) ==
    IF IsSome(field) THEN Vec_encode(ty, Unwrap(field)) ELSE <<>>

Opt_encode(ty, field, later_is_some) ==
    IF IsSome(field) THEN Vec_encode(ty, Unwrap(field))
    ELSE IF later_is_some THEN <<EMPTY_STRING_CODE>> ELSE <<>>

\* variant: presence is taken from the cursor being non-empty
Opt_decode_cursor(ty, b, started_len, payload_length) ==
    IF Len(b) > 0
    THEN IF b[1] = EMPTY_STRING_CODE
         THEN Ok(None, Drop(b, 1))
         ELSE With({ IF ~r.ok THEN r ELSE Ok(Some(r.val), r.rest)
                   : r \in {Vec_decode(ty, b)} })
    ELSE Ok(None, b)

\* variant: a field that fails to decode is read as None
Opt_decode_lenient(ty, b, started_len, payload_length) ==
    IF started_len - Len(b) < payload_length
    THEN IF Len(b) > 0 /\ b[1] = EMPTY_STRING_CODE
         THEN Ok(None, Drop(b, 1))
         ELSE With({ IF ~r.ok THEN Ok(None, b) ELSE Ok(Some(r.val), r.rest)
                   : r \in {Vec_decode(ty, b)} })
    ELSE Ok(None, b)

\* An Option field is read only while the payload is not used up; a leading
\* EMPTY_STRING_CODE byte is consumed and read as None.
Opt_decode(ty, b, started_len, payload_length) ==
    IF started_len - Len(b) < payload_length
    THEN IF Len(b) > 0 /\ b[1] = EMPTY_STRING_CODE
         THEN Ok(None, Drop(b, 1))
         ELSE With({ IF ~r.ok THEN r ELSE Ok(Some(r.val), r.rest)
                   : r \in {Vec_decode(ty, b)} })
    ELSE Ok(None, b)

\* the two trailing Option fields of a derived decode, read in declared order
\* from cursor b
Trailing_decode(b, started_len, payload_length) ==
    With({ IF ~w.ok THEN w
           ELSE With({ IF ~r.ok THEN r
                       ELSE Ok([withdrawals |-> w.val, requests |-> r.val], r.rest)
                     : r \in {Opt_decode("Request", w.rest, started_len, payload_length)} })
         : w \in {Opt_decode("Withdrawal", b, started_len, payload_length)} })

\* ---- BlockBody<T> ----
BlockBody_payload_length(body) ==
    Vec_length("T", body.transactions)
        + Vec_length("Header", body.ommers)
        + Opt_length("Withdrawal", body.withdrawals, IsSome(body.requests))
        + Opt_length("Request", body.requests, FALSE)

BlockBody_length(body) ==
    LET pl == BlockBody_payload_length(body) IN length_of_length(pl) + pl

\* variant: ommers written before transactions
BlockBody_encode_ommers_first(body) ==
    Header_encode(TRUE, BlockBody_payload_length(body))
        \o Vec_encode("Header", body.ommers)
        \o Vec_encode("T", body.transactions)
        \o Opt_encode("Withdrawal", body.withdrawals, IsSome(body.requests))
        \o Opt_encode("Request", body.requests, FALSE)

BlockBody_encode(body) ==
    Header_encode(TRUE, BlockBody_payload_length(body))
        \o Vec_encode("T", body.transactions)
        \o Vec_encode("Header", body.ommers)
        \o Opt_encode("Withdrawal", body.withdrawals, IsSome(body.requests))
        \o Opt_encode("Request", body.requests, FALSE)

BlockBody_decode(buf) ==
    With({ IF ~hd.ok THEN Err(hd.err)
           ELSE IF ~hd.list THEN Err("UnexpectedString")
           ELSE IF Len(hd.rest) < hd.payload_length THEN Err("InputTooShort")
           ELSE With({ IF ~t.ok THEN t
                ELSE With({ IF ~o.ok THEN o
                     ELSE With({ IF ~tr.ok THEN tr
                                 ELSE Finish([transactions |-> t.val,
                                              ommers |-> o.val,
                                              withdrawals |-> tr.val.withdrawals,
                                              requests |-> tr.val.requests],
                                             Len(hd.rest) - Len(tr.rest),
                                             hd.payload_length, tr.rest)
                               : tr \in {Trailing_decode(o.rest, Len(hd.rest),
                                                         hd.payload_length)} })
                          : o \in {Vec_decode("Header", t.rest)} })
                     : t \in {Vec_decode("T", hd.rest)} })
         : hd \in {Header_decode(buf)} })

\* ---- block_rlp::HelperRef (encode view) ----
\* variant: the view leaves requests out
HelperRef_from_no_requests(block) ==
    [header |-> block.header,
     transactions |-> block.body.transactions,
     ommers |-> block.body.ommers,
     withdrawals |-> block.body.withdrawals,
     requests |-> None]

HelperRef_from(block) ==
    [header |-> block.header,
     transactions |-> block.body.transactions,
     ommers |-> block.body.ommers,
     withdrawals |-> block.body.withdrawals,
     requests |-> block.body.requests]

HelperRef_payload_length(helper) ==
    ConsensusHeader_length(helper.header)
        + Vec_length("T", helper.transactions)
        + Vec_length("Header", helper.ommers)
        + Opt_length("Withdrawal", helper.withdrawals, IsSome(helper.requests))
        + Opt_length("Request", helper.requests, FALSE)

HelperRef_length(helper) ==
    LET pl == HelperRef_payload_length(helper) IN length_of_length(pl) + pl

\* variant: the body nested in a list of its own
HelperRef_encode_nested(helper) ==
    LET body == [transactions |-> helper.transactions, ommers |-> helper.ommers,
                 withdrawals |-> helper.withdrawals, requests |-> helper.requests]
    IN  Header_encode(TRUE, ConsensusHeader_length(helper.header) + BlockBody_length(body))
            \o ConsensusHeader_encode(helper.header)
            \o BlockBody_encode(body)

HelperRef_encode(helper) ==
    Header_encode(TRUE, HelperRef_payload_length(helper))
        \o ConsensusHeader_encode(helper.header)
        \o Vec_encode("T", helper.transactions)
        \o Vec_encode("Header", helper.ommers)
        \o Opt_encode("Withdrawal", helper.withdrawals, IsSome(helper.requests))
        \o Opt_encode("Request", helper.requests, FALSE)

\* ---- block_rlp::Helper (decode view) ----
Helper_decode(buf) ==
    With({ IF ~hd.ok THEN Err(hd.err)
           ELSE IF ~hd.list THEN Err("UnexpectedString")
           ELSE IF Len(hd.rest) < hd.payload_length THEN Err("InputTooShort")
           ELSE With({ IF ~h.ok THEN h
                ELSE With({ IF ~t.ok THEN t
                     ELSE With({ IF ~o.ok THEN o
                          ELSE With({ IF ~tr.ok THEN tr
                                      ELSE Finish([header |-> h.val,
                                                   transactions |-> t.val,
                                                   ommers |-> o.val,
                                                   withdrawals |-> tr.val.withdrawals,
                                                   requests |-> tr.val.requests],
                                                  Len(hd.rest) - Len(tr.rest),
                                                  hd.payload_length, tr.rest)
                                    : tr \in {Trailing_decode(o.rest, Len(hd.rest),
                                                              hd.payload_length)} })
                               : o \in {Vec_decode("Header", t.rest)} })
                          : t \in {Vec_decode("T", h.rest)} })
                     : h \in {ConsensusHeader_decode(hd.rest)} })
         : hd \in {Header_decode(buf)} })

\* ---- impl Encodable / Decodable for Block<T> ----
Block_length(block) == HelperRef_length(HelperRef_from(block))

Block_encode(block) == HelperRef_encode(HelperRef_from(block))

\* variant: a failed Helper::decode is replaced by the default block
Block_decode_or_default(b) ==
    With({ IF ~r.ok
           THEN Ok([header |-> [number |-> 0, extra_data |-> <<>>],
                    body |-> [transactions |-> <<>>, ommers |-> <<>>,
                              withdrawals |-> None, requests |-> None]], <<>>)
           ELSE Ok([header |-> r.val.header,
                    body |-> [transactions |-> r.val.transactions,
                              ommers |-> r.val.ommers,
                              withdrawals |-> r.val.withdrawals,
                              requests |-> r.val.requests]], r.rest)
         : r \in {Helper_decode(b)} })

Block_decode(b) ==
    With({ IF ~r.ok THEN r
           ELSE Ok([header |-> r.val.header,
                    body |-> [transactions |-> r.val.transactions,
                              ommers |-> r.val.ommers,
                              withdrawals |-> r.val.withdrawals,
                              requests |-> r.val.requests]], r.rest)
         : r \in {Helper_decode(b)} })

\* ------------------------------------------------------------------------
\* Values
\* ------------------------------------------------------------------------
SeqsUpTo(S, n) == UNION {[1..k -> S] : k \in 0..n}

LongExtra == [i \in 1..HeaderPad |-> 7]

Headers == {[number |-> 0, extra_data |-> <<>>], [number |-> 200, extra_data |-> LongExtra]}
TxValues == {0, 200}
WithdrawalValues == {[index |-> 0, amount |-> 1], [index |-> 200, amount |-> 5]}
RequestValues == {<<1>>, <<0, 9>>}

OptionOf(S) == {None} \cup {Some(v) : v \in S}

BlockBodies ==
    [transactions : SeqsUpTo(TxValues, MaxTxs),
     ommers : SeqsUpTo(Headers, MaxOmmers),
     withdrawals : OptionOf(SeqsUpTo(WithdrawalValues, MaxWithdrawals)),
     requests : OptionOf(SeqsUpTo(RequestValues, MaxRequests))]

Blocks == [header : Headers, body : BlockBodies]

\* the items a received list may carry after its required fields: the empty
\* string, a withdrawals list, a requests list, a one-byte string
MarkerItem == <<EMPTY_STRING_CODE>>
WithdrawalsItem == Vec_encode("Withdrawal", <<[index |-> 0, amount |-> 1]>>)
RequestsItem == Vec_encode("Request", <<(<<0, 9>>)>>)
StringItem == <<5>>
TailItems == {MarkerItem, WithdrawalsItem, RequestsItem, StringItem}

\* what may follow the list in a received buffer: nothing, or one more item
Followers == {<<>>, <<EMPTY_STRING_CODE>>}

RECURSIVE Flatten(_)
Flatten(items) == IF Len(items) = 0 THEN <<>> ELSE Head(items) \o Flatten(Tail(items))

\* the encoded required fields of a block / of its body
RequiredOfBlock(b) ==
    ConsensusHeader_encode(b.header) \o Vec_encode("T", b.body.transactions)
        \o Vec_encode("Header", b.body.ommers)
RequiredOfBody(body) ==
    Vec_encode("T", body.transactions) \o Vec_encode("Header", body.ommers)

ListOf(payload) == Header_encode(TRUE, Len(payload)) \o payload

\* ------------------------------------------------------------------------
\* State
\* ------------------------------------------------------------------------
VARIABLES
    block,   \* the Block<T> value at hand
    kind,    \* "block": Block is en/decoded; "body": its BlockBody alone
    wire,    \* the bytes written by encode, or received, and given to decode
    len,     \* the value returned by length()
    tail,    \* the items a received list carries after its required fields
    after,   \* the bytes that follow the list in the input buffer
    pc,      \* "start", "encoded", "truncated", "received", "decoded"
    origin,  \* pc before decode ran
    res      \* the Result returned by decode

vars == <<block, kind, wire, len, tail, after, pc, origin, res>>

Init ==
    /\ block \in Blocks
    /\ kind = "none"
    /\ wire = <<>>
    /\ len = 0
    /\ tail = <<>>
    /\ after = <<>>
    /\ pc = "start"
    /\ origin = "none"
    /\ res = Err("none")

\* Block::encode(&block, &mut out) and Block::length(&block)
EncodeBlock ==
    /\ pc = "start"
    /\ kind' = "block"
    /\ wire' = Block_encode(block)
    /\ len' = Block_length(block)
    /\ pc' = "encoded"
    /\ UNCHANGED <<block, tail, after, origin, res>>

\* BlockBody::encode(&block.body, &mut out) and BlockBody::length(&block.body)
EncodeBody ==
    /\ pc = "start"
    /\ kind' = "body"
    /\ wire' = BlockBody_encode(block.body)
    /\ len' = BlockBody_length(block.body)
    /\ pc' = "encoded"
    /\ UNCHANGED <<block, tail, after, origin, res>>

\* the last byte of an encoding is lost
Truncate ==
    /\ pc = "encoded"
    /\ wire' = Take(wire, Len(wire) - 1)
    /\ pc' = "truncated"
    /\ UNCHANGED <<block, kind, len, tail, after, origin, res>>

\* a buffer arrives whose first item is a list that holds the required fields
\* of the block followed by some items; more bytes may follow the list
ReceiveBlock ==
    /\ pc = "start"
    /\ block.body.withdrawals = None /\ block.body.requests = None
    /\ \E t \in SeqsUpTo(TailItems, MaxTail), a \in Followers :
        /\ tail' = t
        /\ after' = a
        /\ wire' = ListOf(RequiredOfBlock(block) \o Flatten(t)) \o a
    /\ kind' = "block"
    /\ pc' = "received"
    /\ UNCHANGED <<block, len, origin, res>>

ReceiveBody ==
    /\ pc = "start"
    /\ block.body.withdrawals = None /\ block.body.requests = None
    /\ \E t \in SeqsUpTo(TailItems, MaxTail), a \in Followers :
        /\ tail' = t
        /\ after' = a
        /\ wire' = ListOf(RequiredOfBody(block.body) \o Flatten(t)) \o a
    /\ kind' = "body"
    /\ pc' = "received"
    /\ UNCHANGED <<block, len, origin, res>>

\* Block::decode(&mut &wire[..])
DecodeBlock ==
    /\ pc \in {"encoded", "truncated", "received"}
    /\ kind = "block"
    /\ res' = Block_decode(wire)
    /\ origin' = pc
    /\ pc' = "decoded"
    /\ UNCHANGED <<block, kind, wire, len, tail, after>>

\* BlockBody::decode(&mut &wire[..])
DecodeBody ==
    /\ pc \in {"encoded", "truncated", "received"}
    /\ kind = "body"
    /\ res' = BlockBody_decode(wire)
    /\ origin' = pc
    /\ pc' = "decoded"
    /\ UNCHANGED <<block, kind, wire, len, tail, after>>

Next ==
    \/ EncodeBlock
    \/ EncodeBody
    \/ Truncate
    \/ ReceiveBlock
    \/ ReceiveBody
    \/ DecodeBlock
    \/ DecodeBody

Spec == Init /\ [][Next]_vars

\* ------------------------------------------------------------------------
\* Properties
\* ------------------------------------------------------------------------
Decoded(k, o) == pc = "decoded" /\ kind = k /\ origin = o

\* the body of the decoded value
DecodedBody == IF kind = "block" THEN res.val.body ELSE res.val

\* the payload of a buffer that holds exactly one list
Payload(bytes) == Header_decode(bytes).rest

\* the bytes of an optional field that is present, nothing when it is absent
PresentOnly(ty, field) == IF IsSome(field) THEN Vec_encode(ty, Unwrap(field)) ELSE <<>>

\* the encoded required fields in front of the optional ones
Required == IF kind = "block" THEN RequiredOfBlock(block) ELSE RequiredOfBody(block.body)

\* C1: decoding the bytes written by Block::encode(b) succeeds, consumes them
\* all and yields a block equal to b.
C1_RoundTripBlock ==
    Decoded("block", "encoded") =>
        res.ok /\ res.val = block /\ res.rest = <<>>

C1_Witness ==
    /\ Decoded("block", "encoded") /\ res.ok
    /\ IsSome(block.body.requests) /\ Len(Unwrap(block.body.requests)) > 0
    /\ Len(block.body.transactions) > 0

\* C2: decoding the bytes written by BlockBody::encode(body) succeeds, consumes
\* them all and yields a body equal to body.
C2_RoundTripBody ==
    Decoded("body", "encoded") =>
        res.ok /\ res.val = block.body /\ res.rest = <<>>

C2_Witness ==
    /\ Decoded("body", "encoded") /\ res.ok
    /\ Len(block.body.transactions) > 0 /\ Len(block.body.ommers) > 0
    /\ IsSome(block.body.withdrawals) /\ IsSome(block.body.requests)

\* C3 as stated: encode(b) is one list whose payload is header, transactions,
\* ommers, withdrawals if present, requests if present, and equals
\* encode(b.header) followed by the payload of the encoding of b.body.
C3_LayoutOnlyPresentFields ==
    (pc = "encoded" /\ kind = "block") =>
        LET hd == Header_decode(wire)
        IN  /\ hd.ok /\ hd.list /\ hd.payload_length = Len(hd.rest)
            /\ hd.rest = ConsensusHeader_encode(block.header)
                            \o Vec_encode("T", block.body.transactions)
                            \o Vec_encode("Header", block.body.ommers)
                            \o PresentOnly("Withdrawal", block.body.withdrawals)
                            \o PresentOnly("Request", block.body.requests)
            /\ hd.rest = ConsensusHeader_encode(block.header)
                            \o Payload(BlockBody_encode(block.body))

\* C3 amended: encode(b) is one list whose payload is header, transactions,
\* ommers, then withdrawals if present or the single byte 0x80 in its place
\* when withdrawals is absent and requests is present, then requests if
\* present; the payload equals encode(b.header) followed by the payload of the
\* encoding of b.body.
C3_FlattenedLayout ==
    (pc = "encoded" /\ kind = "block") =>
        LET hd == Header_decode(wire)
            slot == IF IsSome(block.body.withdrawals) \/ ~IsSome(block.body.requests)
                    THEN PresentOnly("Withdrawal", block.body.withdrawals)
                    ELSE <<128>>
        IN  /\ hd.ok /\ hd.list /\ hd.payload_length = Len(hd.rest)
            /\ hd.rest = ConsensusHeader_encode(block.header)
                            \o Vec_encode("T", block.body.transactions)
                            \o Vec_encode("Header", block.body.ommers)
                            \o slot
                            \o PresentOnly("Request", block.body.requests)
            /\ hd.rest = ConsensusHeader_encode(block.header)
                            \o Payload(BlockBody_encode(block.body))

C3_Witness ==
    /\ pc = "encoded" /\ kind = "block"
    /\ ~IsSome(block.body.withdrawals) /\ IsSome(block.body.requests)
    /\ Len(block.body.ommers) > 0

\* C4: with withdrawals and requests both absent the encoding is exactly the
\* list of the required fields, and decoding it yields both fields absent.
C4_Optionality ==
    /\ (pc = "encoded" /\ block.body.withdrawals = None /\ block.body.requests = None)
          => wire = ListOf(Required)
    /\ (pc = "decoded" /\ origin = "encoded"
          /\ block.body.withdrawals = None /\ block.body.requests = None)
          => res.ok /\ DecodedBody.withdrawals = None /\ DecodedBody.requests = None

C4_Witness ==
    /\ Decoded("body", "encoded") /\ res.ok
    /\ block.body.withdrawals = None /\ block.body.requests = None
    /\ Len(block.body.transactions) > 0

C6_ForwardCompatible ==
    /\ (pc = "decoded" /\ origin = "received" /\ tail = <<>>) =>
          /\ res.ok /\ res.rest = after
          /\ DecodedBody = block.body
    /\ (pc = "decoded" /\ origin = "received" /\ tail = <<WithdrawalsItem>>) =>
          /\ res.ok /\ res.rest = after
          /\ DecodedBody.transactions = block.body.transactions
          /\ DecodedBody.ommers = block.body.ommers
          /\ DecodedBody.withdrawals = Some(<<[index |-> 0, amount |-> 1]>>)
          /\ DecodedBody.requests = None
    /\ (pc = "decoded" /\ origin = "encoded"
          /\ IsSome(block.body.withdrawals) /\ ~IsSome(block.body.requests)) =>
          /\ res.ok
          /\ DecodedBody.withdrawals = block.body.withdrawals
          /\ DecodedBody.requests = None

C6_Witness ==
    /\ pc = "decoded" /\ origin = "received" /\ res.ok
    /\ tail = <<WithdrawalsItem>> /\ after # <<>>
    /\ DecodedBody.requests = None

\* the position in tail of the item read for withdrawals (1) or requests (2)
\* fails to decode as that field
FailsAs(ty, i) == Len(tail) >= i /\ ~Vec_decode(ty, tail[i]).ok

\* C7 as stated, whatever the error is called: bytes that remain after the
\* required fields and fail to decode as the next optional field make decode
\* fail, and a field is absent only when the payload is used up.
C7_MalformedIsHardError ==
    (pc = "decoded" /\ origin = "received") =>
        /\ FailsAs("Withdrawal", 1) => ~res.ok
        /\ (res.ok /\ DecodedBody.withdrawals = None) => tail = <<>>
        /\ (res.ok /\ DecodedBody.requests = None) => Len(tail) <= 1

\* C7 amended: when bytes remain after the required fields, a first byte 0x80
\* is consumed and the field is absent; any other bytes that fail to decode
\* as the next optional field make decode return that field decoder's error
\* and no value.  A field is absent only when the payload is used up or its
\* position holds the byte 0x80, never because its decode failed.
C7_MalformedOrMarker ==
    (pc = "decoded" /\ origin = "received") =>
        /\ (FailsAs("Withdrawal", 1) /\ tail[1] # MarkerItem) =>
              ~res.ok /\ res.err = Vec_decode("Withdrawal", tail[1]).err
        /\ (~FailsAs("Withdrawal", 1) /\ FailsAs("Request", 2) /\ tail[2] # MarkerItem) =>
              ~res.ok /\ res.err = Vec_decode("Request", tail[2]).err
        /\ (Len(tail) >= 2 /\ tail[1] = MarkerItem /\ FailsAs("Request", 2)
              /\ tail[2] # MarkerItem) =>
              ~res.ok /\ res.err = Vec_decode("Request", tail[2]).err
        /\ (res.ok /\ DecodedBody.withdrawals = None) =>
              tail = <<>> \/ tail[1] = MarkerItem
        /\ (res.ok /\ DecodedBody.requests = None) =>
              Len(tail) <= 1 \/ tail[2] = MarkerItem
        /\ ~res.ok => res.val = <<>>

C7_Witness ==
    /\ pc = "decoded" /\ origin = "received"
    /\ tail = <<WithdrawalsItem, StringItem>>
    /\ ~res.ok /\ res.err = "UnexpectedString"

\* C8: decoding a valid encoding of a Block or BlockBody without its last byte
\* returns the error InputTooShort.
C8_TruncationDetected ==
    (pc = "decoded" /\ origin = "truncated") =>
        ~res.ok /\ res.err = "InputTooShort"

C8_Witness ==
    /\ Decoded("block", "truncated") /\ ~res.ok
    /\ Len(wire) > 56
    /\ IsSome(block.body.requests)

\* both optional fields of a received list are resolved by its first two items
Resolved ==
    /\ Len(tail) >= 2
    /\ tail[1] \in {WithdrawalsItem, MarkerItem}
    /\ tail[2] \in {RequestsItem, MarkerItem}

\* C9 as stated: bytes left in the payload after withdrawals and requests are
\* resolved make decode fail with TrailingBytes.
C9_LeftoverIsTrailingBytes ==
    (pc = "decoded" /\ origin = "received" /\ Resolved /\ Len(tail) > 2) =>
        ~res.ok /\ res.err = "TrailingBytes"

\* C9 amended: bytes left in the payload after withdrawals and requests are
\* resolved make decode fail with ListLengthMismatch.
C9_LeftoverIsLengthMismatch ==
    (pc = "decoded" /\ origin = "received" /\ Resolved /\ Len(tail) > 2) =>
        ~res.ok /\ res.err = "ListLengthMismatch"

C9_Witness ==
    /\ Decoded("body", "received") /\ ~res.ok
    /\ tail = <<WithdrawalsItem, RequestsItem, RequestsItem>>

\* C10 as stated: Block::length(b) is the number of bytes Block::encode(b)
\* writes, and the payload length in the list prefix is the sum of the lengths
\* of header, transactions, ommers and each present optional field.
C10_LengthOfPresentFields ==
    (pc = "encoded" /\ kind = "block") =>
        /\ len = Len(wire)
        /\ Header_decode(wire).payload_length =
              Len(ConsensusHeader_encode(block.header))
                + Len(Vec_encode("T", block.body.transactions))
                + Len(Vec_encode("Header", block.body.ommers))
                + Len(PresentOnly("Withdrawal", block.body.withdrawals))
                + Len(PresentOnly("Request", block.body.requests))

\* C10 amended: Block::length(b) is the number of bytes Block::encode(b)
\* writes, and the payload length in the list prefix is the sum of the lengths
\* of header, transactions, ommers and each present optional field, plus one
\* for the byte 0x80 written when withdrawals is absent and requests present.
C10_LengthConsistent ==
    (pc = "encoded" /\ kind = "block") =>
        /\ len = Len(wire)
        /\ Header_decode(wire).payload_length =
              Len(ConsensusHeader_encode(block.header))
                + Len(Vec_encode("T", block.body.transactions))
                + Len(Vec_encode("Header", block.body.ommers))
                + Len(PresentOnly("Withdrawal", block.body.withdrawals))
                + Len(PresentOnly("Request", block.body.requests))
                + (IF ~IsSome(block.body.withdrawals) /\ IsSome(block.body.requests)
                   THEN 1 ELSE 0)

C10_Witness ==
    /\ pc = "encoded" /\ kind = "block" /\ len > 57
    /\ ~IsSome(block.body.withdrawals) /\ IsSome(block.body.requests)

====
